---- MODULE Spec2Model ----
(***************************************************************************)
(* The "Batch Analyse" page of src/app.py (lines 350-515): uploads are     *)
(* persisted to temporary files, analysed one by one, aggregated into an   *)
(* overview table, optionally ranked against a job description, exported   *)
(* as JSON and as a multi-sheet workbook, and the temporary files are      *)
(* removed in the finally block.                                           *)
(*                                                                         *)
(* Python values are modelled as follows.  An optional value (None, or a   *)
(* dict key that may be missing) is a sequence of length 0 or 1.  A        *)
(* DataFrame is a sequence of [index, row] records.  A file name or path   *)
(* is a tuple <<kind, number>>.  Time spans are counted in quarter days,   *)
(* so that 365.25 days is the integer QuarterDaysPerYear.                  *)
(***************************************************************************)
EXTENDS Integers, Sequences, FiniteSets, TLC

\* Largest number of files uploaded in one batch.
MaxDocs == 4

\* Largest number of files uploaded in a batch that runs beside a second one.
MaxDocsTwo == 2

\* head(min(3, len(ranking_df))) at src/app.py:445.
TopK == 3

\* 365.25 days (src/app.py:131), in quarter days.
QuarterDaysPerYear == 1461

VARIABLES
    uploaded_files,   \* st.file_uploader(...): the content of each upload, in order
    job_description,  \* None, or the text of the text area
    pc,               \* position in the handler
    i,                \* index of the running for loop (1-based)
    fs,               \* paths that exist on disk
    temp_files,       \* list of (temp path, original name)
    all_results,      \* list of result dicts
    calls,            \* the Analyzer's calls: (path, job description argument)
    st_errors,        \* st.error banners shown
    error_log,        \* debugger.log_error contexts
    metrics,          \* debugger.log_performance_metric names
    overview_df,      \* DataFrame of overview rows
    ranking_df,       \* None, or the ranking DataFrame
    top_candidates,   \* None, or the head of the ranking DataFrame
    links,            \* download links shown with st.markdown
    excel_buffer,     \* None, or the sheet names written to the ExcelWriter
    xlsx_file,        \* None, or the content of batch_analysis.xlsx on disk
    excel_data,       \* None, or the bytes read back from batch_analysis.xlsx
    other             \* a second invocation of the handler in its Excel export

vars == <<uploaded_files, job_description, pc, i, fs, temp_files, all_results,
          calls, st_errors, error_log, metrics, overview_df, ranking_df,
          top_candidates, links, excel_buffer, xlsx_file, excel_data, other>>

----------------------------------------------------------------------------
\* Python values

None == <<>>

Some(v) == <<v>>

\* dict.get(key, default) on an optional field.
Get(opt, default) == IF opt = None THEN default ELSE opt[1]

\* Truth value of an optional string: None and "" are falsy.
Truthy(opt) == opt # None /\ opt[1] # ""

Min(a, b) == IF a <= b THEN a ELSE b

RECURSIVE SumSeq(_)
SumSeq(s) == IF s = <<>> THEN 0 ELSE Head(s) + SumSeq(Tail(s))

----------------------------------------------------------------------------
\* The inputs of one run

\* One experience entry: the days between start_date and end_date (in quarter
\* days) and the optional "duration" key.
ExpNoDuration == [span |-> QuarterDaysPerYear, duration |-> None]
ExpOneYear    == [span |-> QuarterDaysPerYear, duration |-> Some(1)]
ExpTwoYears   == [span |-> 2 * QuarterDaysPerYear, duration |-> Some(2)]

\* What the uploaded documents can hold.  "corrupt" makes the Analyzer raise.
Contents == {"corrupt", "cvA", "cvB", "cvC"}

\* The text area's values: checkbox not ticked, ticked and empty, ticked and
\* filled (src/app.py:361-365).
JobDescriptions == {None, Some(""), Some("job")}

\* uploaded_file.name of the k-th upload.
OriginalName(k) == <<"cv", k>>

\* tmp.name of the NamedTemporaryFile made for the k-th upload.
TmpName(k) == <<"tmp", k>>

\* The empty name: "batch_analysis" followed by it is the batch-level context.
NoName == <<"", 0>>

\* analyzer.analyze_cv_file(path[, job_description]) on a document with the given
\* content: the result dict, as returned (no filename yet).
AnalyzerResult(content) ==
    CASE content = "cvA" ->
            [filename |-> None, relevance_score |-> None,
             skills |-> {}, experience |-> <<>>]
      [] content = "cvB" ->
            [filename |-> None, relevance_score |-> Some(70),
             skills |-> {"python"}, experience |-> <<ExpNoDuration>>]
      [] content = "cvC" ->
            [filename |-> None, relevance_score |-> Some(90),
             skills |-> {}, experience |-> <<ExpOneYear, ExpTwoYears>>]

AnalyzerRaises(content) == content = "corrupt"

\* No second invocation runs.
NoOther == [pc |-> "none", buffer |-> None, data |-> None]

Init ==
    /\ uploaded_files \in UNION {[1..n -> Contents] : n \in 1..MaxDocs}
    /\ job_description \in JobDescriptions
    /\ pc = "persist"
    /\ i = 1
    /\ fs = {}
    /\ temp_files = <<>>
    /\ all_results = <<>>
    /\ calls = <<>>
    /\ st_errors = <<>>
    /\ error_log = <<>>
    /\ metrics = <<>>
    /\ overview_df = <<>>
    /\ ranking_df = None
    /\ top_candidates = None
    /\ links = <<>>
    /\ excel_buffer = None
    /\ xlsx_file = None
    /\ excel_data = None
    /\ other = NoOther

----------------------------------------------------------------------------
\* Lines 372-375: persist the uploads

\* One pass of the for loop: the temporary file is created, written and recorded.
PersistUpload ==
    /\ pc = "persist"
    /\ fs' = fs \cup {TmpName(i)}
    /\ temp_files' = Append(temp_files, <<TmpName(i), OriginalName(i)>>)
    /\ IF i = Len(uploaded_files)
          THEN pc' = "analyze" /\ i' = 1
          ELSE pc' = "persist" /\ i' = i + 1
    /\ UNCHANGED <<uploaded_files, job_description, all_results, calls, st_errors,
                   error_log, metrics, overview_df, ranking_df, top_candidates,
                   links, excel_buffer, xlsx_file, excel_data,
                   other>>

\* NamedTemporaryFile(...) raises: no file was created.
PersistCreateFails ==
    /\ pc = "persist"
    /\ pc' = "except"
    /\ UNCHANGED <<uploaded_files, job_description, i, fs, temp_files, all_results,
                   calls, st_errors, error_log, metrics, overview_df, ranking_df,
                   top_candidates, links, excel_buffer, xlsx_file, excel_data,
                   other>>

\* tmp.write(...) or getvalue() raises inside the with block: the file exists
\* (delete=False) and temp_files.append was not reached.
PersistWriteFails ==
    /\ pc = "persist"
    /\ fs' = fs \cup {TmpName(i)}
    /\ pc' = "except"
    /\ UNCHANGED <<uploaded_files, job_description, i, temp_files, all_results,
                   calls, st_errors, error_log, metrics, overview_df, ranking_df,
                   top_candidates, links, excel_buffer, xlsx_file, excel_data,
                   other>>

----------------------------------------------------------------------------
\* Lines 388-411: the per-document loop

AnalyzerArg_IfNotNone == job_description

\* Lines 394-397: the job description is passed only when it is truthy.
AnalyzerArg == IF Truthy(job_description) THEN job_description ELSE None

\* The content of the file the Analyzer opens at a temporary path.
ContentAt(path) == uploaded_files[path[2]]

TagResult_Untagged(result, original_name) == result

\* Line 400: result["filename"] = original_name
TagResult(result, original_name) ==
    [result EXCEPT !.filename = Some(original_name)]

\* Line 405: f"batch_analysis_{original_name}"
ErrorContext(original_name) == <<"batch_analysis_", original_name>>

\* Lines 401 and 403-405: what one pass appends to all_results, st_errors and
\* error_log.
ResultsAfter(results, temp_path, original_name) ==
    IF AnalyzerRaises(ContentAt(temp_path))
       THEN results
       ELSE Append(results, TagResult(AnalyzerResult(ContentAt(temp_path)),
                                      original_name))

\* Line 404: f"Fehler bei der Analyse von {original_name}: ..."
DocumentError(original_name) == <<"Fehler bei der Analyse von ", original_name>>

ErrorsAfter_Always(log, temp_path, entry) == Append(log, entry)

ErrorsAfter(log, temp_path, entry) ==
    IF AnalyzerRaises(ContentAt(temp_path))
       THEN Append(log, entry)
       ELSE log

\* One pass of the loop over temp_files, with its try/except.
AnalyzeDocument ==
    /\ pc = "analyze"
    /\ i <= Len(temp_files)
    /\ LET temp_path     == temp_files[i][1]
           original_name == temp_files[i][2]
       IN  /\ calls' = Append(calls, <<temp_path, AnalyzerArg>>)
           /\ all_results' = ResultsAfter(all_results, temp_path, original_name)
           /\ error_log' = ErrorsAfter(error_log, temp_path, ErrorContext(original_name))
           /\ st_errors' = ErrorsAfter(st_errors, temp_path, DocumentError(original_name))
    /\ i' = i + 1
    /\ UNCHANGED <<uploaded_files, job_description, pc, fs, temp_files, metrics,
                   overview_df, ranking_df, top_candidates, links, excel_buffer,
                   xlsx_file, excel_data,
                   other>>

\* An exception in the loop outside the inner try (the progress widgets, or
\* st.error / log_error inside the handler) leaves the outer try.
AnalyzeLoopFails ==
    /\ pc = "analyze"
    /\ i <= Len(temp_files)
    /\ pc' = "except"
    /\ UNCHANGED <<uploaded_files, job_description, i, fs, temp_files, all_results,
                   calls, st_errors, error_log, metrics, overview_df, ranking_df,
                   top_candidates, links, excel_buffer, xlsx_file, excel_data,
                   other>>

LogDuration_OnlyWithResults ==
    /\ pc = "analyze"
    /\ i > Len(temp_files)
    /\ metrics' = IF all_results # <<>>
                     THEN Append(metrics, "batch_analysis_duration")
                     ELSE metrics
    /\ pc' = IF all_results # <<>> THEN "overview" ELSE "finally"
    /\ i' = 1
    /\ UNCHANGED <<uploaded_files, job_description, fs, temp_files, all_results,
                   calls, st_errors, error_log, overview_df, ranking_df,
                   top_candidates, links, excel_buffer, xlsx_file, excel_data,
                   other>>

\* Lines 408-413: the duration metric, the success banner, and the
\* "if all_results:" gate of everything that follows.
LogDuration ==
    /\ pc = "analyze"
    /\ i > Len(temp_files)
    /\ metrics' = Append(metrics, "batch_analysis_duration")
    /\ pc' = IF all_results # <<>> THEN "overview" ELSE "finally"
    /\ i' = 1
    /\ UNCHANGED <<uploaded_files, job_description, fs, temp_files, all_results,
                   calls, st_errors, error_log, overview_df, ranking_df,
                   top_candidates, links, excel_buffer, xlsx_file, excel_data,
                   other>>

----------------------------------------------------------------------------
\* Lines 415-429: the overview table

\* Line 423: exp.get("duration", 0)
EntryDuration(exp) == Get(exp.duration, 0)

\* Line 423: sum(exp.get("duration", 0) for exp in result.get("experience", []))
ExperienceYears(result) ==
    SumSeq([k \in 1..Len(result.experience) |-> EntryDuration(result.experience[k])])

\* Lines 417-424: one row of overview_data.  The profession and experience
\* level columns are copied from the result and are left out.
OverviewRow(result) ==
    [Dateiname |-> Get(result.filename, <<"Unbekannt", 0>>),
     RelevanzScore |-> Get(result.relevance_score, 0),
     AnzahlFaehigkeiten |-> Cardinality(result.skills),
     Berufserfahrung |-> ExperienceYears(result)]

\* pd.DataFrame(rows): the rows under a RangeIndex 0..n-1.
DataFrame(rows) == [k \in 1..Len(rows) |-> [index |-> k - 1, row |-> rows[k]]]

BuildOverview ==
    /\ pc = "overview"
    /\ overview_df' = DataFrame([k \in 1..Len(all_results) |-> OverviewRow(all_results[k])])
    /\ pc' = IF Truthy(job_description) THEN "ranking" ELSE "json"
    /\ UNCHANGED <<uploaded_files, job_description, i, fs, temp_files, all_results,
                   calls, st_errors, error_log, metrics, ranking_df, top_candidates,
                   links, excel_buffer, xlsx_file, excel_data,
                   other>>

----------------------------------------------------------------------------
\* Lines 432-455: the ranking

Orderings(n) == {p \in [1..n -> 1..n] : \A a, b \in 1..n : p[a] = p[b] => a = b}

\* Line 436: overview_df.sort_values("Relevanz-Score", ascending=False), with
\* pandas' default kind="quicksort".  The rows come back in non-increasing order
\* of the score, each with its index label; quicksort is not a stable sort, so
\* the order among rows of equal score is whatever the sort produced.
SortValuesDescending(df) ==
    {[k \in 1..Len(df) |-> df[p[k]]] : p \in
        {q \in Orderings(Len(df)) :
            \A a, b \in 1..Len(df) :
                a < b => df[q[a]].row.RelevanzScore >= df[q[b]].row.RelevanzScore}}

\* Line 437: reset_index(drop=True)
ResetIndex(df) == [k \in 1..Len(df) |-> [df[k] EXCEPT !.index = k - 1]]

IndexPlusOne_ZeroBased(df) == df

\* Line 438: ranking_df.index = ranking_df.index + 1
IndexPlusOne(df) == [k \in 1..Len(df) |-> [df[k] EXCEPT !.index = @ + 1]]

\* DataFrame.head(n) for n >= 0
DfHead(df, n) == SubSeq(df, 1, Min(n, Len(df)))

TopCandidates_All(df) == df

\* Line 445: ranking_df.head(min(3, len(ranking_df)))
TopCandidates(df) == DfHead(df, Min(TopK, Len(df)))

BuildRanking ==
    /\ pc = "ranking"
    /\ \E sorted \in SortValuesDescending(overview_df) :
          /\ ranking_df' = Some(IndexPlusOne(ResetIndex(sorted)))
          /\ top_candidates' = Some(TopCandidates(IndexPlusOne(ResetIndex(sorted))))
    /\ pc' = "json"
    /\ UNCHANGED <<uploaded_files, job_description, i, fs, temp_files, all_results,
                   calls, st_errors, error_log, metrics, overview_df, links,
                   excel_buffer, xlsx_file, excel_data,
                   other>>

----------------------------------------------------------------------------
\* Lines 463-505: the exports

\* Lines 465-469: the JSON download link.
OfferJson ==
    /\ pc = "json"
    /\ links' = Append(links, "batch_analysis.json")
    /\ pc' = "xlsx_open"
    /\ UNCHANGED <<uploaded_files, job_description, i, fs, temp_files, all_results,
                   calls, st_errors, error_log, metrics, overview_df, ranking_df,
                   top_candidates, excel_buffer, xlsx_file, excel_data,
                   other>>

\* An exception while the overview, the ranking (and its chart) or the JSON
\* dump is built.
AssemblyFails ==
    /\ pc \in {"overview", "ranking", "json"}
    /\ pc' = "except"
    /\ UNCHANGED <<uploaded_files, job_description, i, fs, temp_files, all_results,
                   calls, st_errors, error_log, metrics, overview_df, ranking_df,
                   top_candidates, links, excel_buffer, xlsx_file, excel_data,
                   other>>

\* Sheet names: "Übersicht", f"Kandidat_{i+1}_Skills", f"Kandidat_{i+1}_Erfahrung"
OverviewSheet == <<"Uebersicht", 0, "">>
SkillsSheet(k) == <<"Kandidat_", k, "_Skills">>
ExperienceSheet(k) == <<"Kandidat_", k, "_Erfahrung">>

CandidateSheets_Always(k, result) == <<SkillsSheet(k), ExperienceSheet(k)>>

\* Lines 480-490 for the k-th result (k = i+1 of enumerate): the sheets written.
CandidateSheets(k, result) ==
    (IF result.skills # {} THEN <<SkillsSheet(k)>> ELSE <<>>)
    \o (IF result.experience # <<>> THEN <<ExperienceSheet(k)>> ELSE <<>>)

\* Lines 474-475: the writer is made and the overview sheet is written to it.
\* The workbook is taken to reach the disk when the writer is closed (line 492),
\* which is the latest point at which any pandas version creates the file.
ExcelOpen ==
    /\ pc = "xlsx_open"
    /\ excel_buffer' = Some(<<OverviewSheet>>)
    /\ i' = 1
    /\ pc' = "xlsx_sheets"
    /\ UNCHANGED <<uploaded_files, job_description, fs, temp_files, all_results,
                   calls, st_errors, error_log, metrics, overview_df, ranking_df,
                   top_candidates, links, xlsx_file, excel_data,
                   other>>

\* Lines 478-490: one pass of the loop over all_results.
ExcelCandidate ==
    /\ pc = "xlsx_sheets"
    /\ i <= Len(all_results)
    /\ excel_buffer' = Some(excel_buffer[1] \o CandidateSheets(i, all_results[i]))
    /\ i' = i + 1
    /\ UNCHANGED <<uploaded_files, job_description, pc, fs, temp_files, all_results,
                   calls, st_errors, error_log, metrics, overview_df, ranking_df,
                   top_candidates, links, xlsx_file, excel_data,
                   other>>

\* Line 492: excel_buffer.close() writes the workbook to batch_analysis.xlsx.
ExcelClose ==
    /\ pc = "xlsx_sheets"
    /\ i > Len(all_results)
    /\ xlsx_file' = excel_buffer
    /\ pc' = "xlsx_read"
    /\ UNCHANGED <<uploaded_files, job_description, i, fs, temp_files, all_results,
                   calls, st_errors, error_log, metrics, overview_df, ranking_df,
                   top_candidates, links, excel_buffer, excel_data,
                   other>>

\* Lines 495-496: the file is read back.
ExcelRead ==
    /\ pc = "xlsx_read"
    /\ xlsx_file # None
    /\ excel_data' = xlsx_file
    /\ pc' = "xlsx_link"
    /\ UNCHANGED <<uploaded_files, job_description, i, fs, temp_files, all_results,
                   calls, st_errors, error_log, metrics, overview_df, ranking_df,
                   top_candidates, links, excel_buffer, xlsx_file,
                   other>>

\* Lines 498-501: the spreadsheet download link.
OfferExcel ==
    /\ pc = "xlsx_link"
    /\ links' = Append(links, "batch_analysis.xlsx")
    /\ pc' = "xlsx_unlink"
    /\ UNCHANGED <<uploaded_files, job_description, i, fs, temp_files, all_results,
                   calls, st_errors, error_log, metrics, overview_df, ranking_df,
                   top_candidates, excel_buffer, xlsx_file, excel_data,
                   other>>

\* Lines 504-505: if os.path.exists(...): os.unlink(...)
ExcelUnlink ==
    /\ pc = "xlsx_unlink"
    /\ xlsx_file' = None
    /\ i' = 1
    /\ pc' = "finally"
    /\ UNCHANGED <<uploaded_files, job_description, fs, temp_files, all_results,
                   calls, st_errors, error_log, metrics, overview_df, ranking_df,
                   top_candidates, links, excel_buffer, excel_data,
                   other>>

\* An exception in the Excel export: making the writer, writing a sheet,
\* closing the writer, reading the file back, or building the link.
ExcelFails ==
    /\ pc \in {"xlsx_open", "xlsx_sheets", "xlsx_read", "xlsx_link"}
    /\ pc' = "except"
    /\ UNCHANGED <<uploaded_files, job_description, i, fs, temp_files, all_results,
                   calls, st_errors, error_log, metrics, overview_df, ranking_df,
                   top_candidates, links, excel_buffer, xlsx_file, excel_data,
                   other>>

----------------------------------------------------------------------------
\* Lines 507-515: except and finally

\* Line 508: f"Fehler bei der Batch-Analyse: ..."
BatchError == <<"Fehler bei der Batch-Analyse", NoName>>

\* Line 509: the context "batch_analysis"
BatchContext == <<"batch_analysis", NoName>>

\* Lines 507-509: the handler of the outer try.
BatchExcept ==
    /\ pc = "except"
    /\ st_errors' = Append(st_errors, BatchError)
    /\ error_log' = Append(error_log, BatchContext)
    /\ i' = 1
    /\ pc' = "finally"
    /\ UNCHANGED <<uploaded_files, job_description, fs, temp_files, all_results,
                   calls, metrics, overview_df, ranking_df, top_candidates, links,
                   excel_buffer, xlsx_file, excel_data,
                   other>>

\* Lines 513-515: one pass of the cleanup loop.
CleanupFile ==
    /\ pc = "finally"
    /\ i <= Len(temp_files)
    /\ fs' = fs \ {temp_files[i][1]}
    /\ i' = i + 1
    /\ UNCHANGED <<uploaded_files, job_description, pc, temp_files, all_results,
                   calls, st_errors, error_log, metrics, overview_df, ranking_df,
                   top_candidates, links, excel_buffer, xlsx_file, excel_data,
                   other>>

\* os.unlink raises on an existing file: nothing catches it in the finally
\* block, the rest of the loop is skipped and the exception leaves the handler.
CleanupFails ==
    /\ pc = "finally"
    /\ i <= Len(temp_files)
    /\ temp_files[i][1] \in fs
    /\ pc' = "raised"
    /\ UNCHANGED <<uploaded_files, job_description, i, fs, temp_files, all_results,
                   calls, st_errors, error_log, metrics, overview_df, ranking_df,
                   top_candidates, links, excel_buffer, xlsx_file, excel_data,
                   other>>

\* The handler returns.
Finish ==
    /\ pc = "finally"
    /\ i > Len(temp_files)
    /\ pc' = "done"
    /\ UNCHANGED <<uploaded_files, job_description, i, fs, temp_files, all_results,
                   calls, st_errors, error_log, metrics, overview_df, ranking_df,
                   top_candidates, links, excel_buffer, xlsx_file, excel_data,
                   other>>

Next ==
    \/ PersistUpload
    \/ PersistCreateFails
    \/ PersistWriteFails
    \/ AnalyzeDocument
    \/ AnalyzeLoopFails
    \/ LogDuration
    \/ BuildOverview
    \/ BuildRanking
    \/ OfferJson
    \/ AssemblyFails
    \/ ExcelOpen
    \/ ExcelCandidate
    \/ ExcelClose
    \/ ExcelRead
    \/ OfferExcel
    \/ ExcelUnlink
    \/ ExcelFails
    \/ BatchExcept
    \/ CleanupFile
    \/ CleanupFails
    \/ Finish

Spec == Init /\ [][Next]_vars

----------------------------------------------------------------------------
\* Two invocations of the handler (two sessions of the app) in one working
\* directory.  The second one is followed through lines 474-505 only, with a
\* batch of one analysable upload of its own: its writer holds the sheets of
\* its result, and it closes the writer, reads "batch_analysis.xlsx" back and
\* deletes it, the same path as the first invocation's.

\* Lines 474-490 in the second invocation: the sheets in its writer.
OtherBuffer(content) ==
    Some(<<OverviewSheet>> \o CandidateSheets(1, AnalyzerResult(content)))

\* Line 492 in the second invocation.
OtherExcelClose ==
    /\ other.pc = "xlsx_close"
    /\ xlsx_file' = other.buffer
    /\ other' = [other EXCEPT !.pc = "xlsx_read"]
    /\ UNCHANGED <<uploaded_files, job_description, pc, i, fs, temp_files,
                   all_results, calls, st_errors, error_log, metrics, overview_df,
                   ranking_df, top_candidates, links, excel_buffer, excel_data>>

\* Lines 495-501 in the second invocation: the file is read and offered.
OtherExcelRead ==
    /\ other.pc = "xlsx_read"
    /\ xlsx_file # None
    /\ other' = [other EXCEPT !.pc = "xlsx_unlink", !.data = xlsx_file]
    /\ UNCHANGED <<uploaded_files, job_description, pc, i, fs, temp_files,
                   all_results, calls, st_errors, error_log, metrics, overview_df,
                   ranking_df, top_candidates, links, excel_buffer, xlsx_file,
                   excel_data>>

\* Line 495 in the second invocation: open() finds no file and raises.
OtherExcelReadFails ==
    /\ other.pc = "xlsx_read"
    /\ xlsx_file = None
    /\ other' = [other EXCEPT !.pc = "except"]
    /\ UNCHANGED <<uploaded_files, job_description, pc, i, fs, temp_files,
                   all_results, calls, st_errors, error_log, metrics, overview_df,
                   ranking_df, top_candidates, links, excel_buffer, xlsx_file,
                   excel_data>>

\* Lines 504-505 in the second invocation.
OtherExcelUnlink ==
    /\ other.pc = "xlsx_unlink"
    /\ xlsx_file' = None
    /\ other' = [other EXCEPT !.pc = "finally"]
    /\ UNCHANGED <<uploaded_files, job_description, pc, i, fs, temp_files,
                   all_results, calls, st_errors, error_log, metrics, overview_df,
                   ranking_df, top_candidates, links, excel_buffer, excel_data>>

InitTwo ==
    /\ uploaded_files \in UNION {[1..n -> Contents] : n \in 1..MaxDocsTwo}
    /\ job_description \in JobDescriptions
    /\ pc = "persist"
    /\ i = 1
    /\ fs = {}
    /\ temp_files = <<>>
    /\ all_results = <<>>
    /\ calls = <<>>
    /\ st_errors = <<>>
    /\ error_log = <<>>
    /\ metrics = <<>>
    /\ overview_df = <<>>
    /\ ranking_df = None
    /\ top_candidates = None
    /\ links = <<>>
    /\ excel_buffer = None
    /\ xlsx_file = None
    /\ excel_data = None
    /\ other \in {[pc |-> "xlsx_close", buffer |-> OtherBuffer(c), data |-> None] :
                      c \in {d \in Contents : ~AnalyzerRaises(d)}}

NextTwo ==
    \/ Next
    \/ OtherExcelClose
    \/ OtherExcelRead
    \/ OtherExcelReadFails
    \/ OtherExcelUnlink

SpecTwo == InitTwo /\ [][NextTwo]_vars

----------------------------------------------------------------------------
\* Properties

\* The uploads whose analysis fails, and the others in upload order.
Failing == {k \in 1..Len(uploaded_files) : AnalyzerRaises(uploaded_files[k])}

NonFailing ==
    SelectSeq([k \in 1..Len(uploaded_files) |-> k], LAMBDA k : k \notin Failing)

\* The per-document loop has run to its end.
LoopDone == (pc = "analyze" /\ i > Len(temp_files)) \/ metrics # <<>>

\* How often e occurs in the sequence s.
Count(s, e) == Cardinality({k \in 1..Len(s) : s[k] = e})

\* C1: after the per-document loop of a batch of N uploads of which M fail,
\* all_results holds exactly N-M entries, one per non-failing upload in upload
\* order, each the Analyzer's result for that upload with filename set to the
\* upload's original name.
C1_ResultsInUploadOrder ==
    LoopDone =>
        /\ Len(all_results) = Len(uploaded_files) - Cardinality(Failing)
        /\ Len(all_results) = Len(NonFailing)
        /\ \A j \in 1..Len(all_results) :
              /\ all_results[j].filename = Some(OriginalName(NonFailing[j]))
              /\ all_results[j].experience =
                    AnalyzerResult(uploaded_files[NonFailing[j]]).experience
              /\ all_results[j].relevance_score =
                    AnalyzerResult(uploaded_files[NonFailing[j]]).relevance_score

\* A batch of at least three uploads with a failing one between two that succeed
\* has been through the loop.
C1_Witness ==
    /\ LoopDone
    /\ Len(uploaded_files) >= 3
    /\ 2 \in Failing
    /\ 1 \notin Failing
    /\ 3 \notin Failing
    /\ Len(all_results) >= 2

\* C2: once the handler has finished, no temporary file created for the batch
\* is left on disk, whichever way the handler was left.
C2_NoTempFileLeft == pc = "done" => fs = {}

\* The context string batch_analysis_<original name of upload k>.
ContextOf(k) == <<"batch_analysis_", OriginalName(k)>>

\* In every state: the calls are in upload order, one per upload; a failed
\* upload has one error entry of its own and no result or overview row.
C3_State ==
    /\ \A j \in 1..Len(calls) : calls[j][1] = TmpName(j)
    /\ \A k \in Failing :
          k <= Len(calls) =>
             /\ Count(error_log, ContextOf(k)) = 1
             /\ \A j \in 1..Len(all_results) :
                   all_results[j].filename # Some(OriginalName(k))
             /\ \A j \in 1..Len(overview_df) :
                   overview_df[j].row.Dateiname # OriginalName(k)
    /\ \A k \in 1..Len(uploaded_files) :
          k \notin Failing =>
             Count(error_log, ContextOf(k)) = 0
    /\ LoopDone => Len(calls) = Len(uploaded_files)

\* A pass of the loop whose Analyzer call fails goes on to the next upload.
C3_Step ==
    (/\ pc = "analyze"
     /\ Len(calls') = Len(calls) + 1
     /\ Len(calls') \in Failing)
    => (pc' = "analyze" /\ i' = i + 1 /\ all_results' = all_results)

\* C3: a failing Analyzer call for upload k records exactly one error entry
\* batch_analysis_<name of k>, adds no result and no overview row for k, is not
\* retried, and does not end the loop: the loop goes on to the next upload, and
\* when it ends every upload has been analysed exactly once, in upload order.
C3_FailureIsolated == [](C3_State) /\ [][C3_Step]_vars

\* The second of three uploads failed and the third has been analysed after it.
C3_Witness ==
    /\ LoopDone
    /\ Len(uploaded_files) = 3
    /\ Failing = {2}
    /\ Len(calls) = 3
    /\ error_log = <<ContextOf(2)>>
    /\ Len(overview_df) = 2

\* C4: after a batch-level failure the failure has been reported exactly once
\* with context batch_analysis, no download link has been offered in the run,
\* and the cleanup has removed the recorded temporary files.
C4_BatchFailureOffersNoLink ==
    (pc \in {"finally", "done"} /\ Count(error_log, BatchContext) > 0) =>
        /\ Count(error_log, BatchContext) = 1
        /\ Count(st_errors, BatchError) = 1
        /\ links = <<>>
        /\ pc = "done" => \A k \in 1..Len(temp_files) : temp_files[k][1] \notin fs

\* C5: once the handler has finished, batch_analysis.xlsx does not exist.
C5_NoWorkbookLeft == pc = "done" => xlsx_file = None

\* C6: the experience years of every overview row are the sum over the
\* result's experience entries of (end_date - start_date) / 365.25 days.
C6_YearsFromDates ==
    \A j \in 1..Len(overview_df) :
        overview_df[j].row.Berufserfahrung * QuarterDaysPerYear =
            SumSeq([k \in 1..Len(all_results[j].experience) |->
                        all_results[j].experience[k].span])

\* Where the row with the given file name stands in a DataFrame.
PositionOf(df, name) == CHOOSE k \in 1..Len(df) : df[k].row.Dateiname = name

\* C7: two rows of the ranking with the same relevance score stand in the order
\* they have in the overview table.
C7_RankingStable ==
    ranking_df # None =>
        \A a, b \in 1..Len(ranking_df[1]) :
            (/\ a < b
             /\ ranking_df[1][a].row.RelevanzScore = ranking_df[1][b].row.RelevanzScore)
            => PositionOf(overview_df, ranking_df[1][a].row.Dateiname)
                 < PositionOf(overview_df, ranking_df[1][b].row.Dateiname)

\* The result a row was made from.
ResultOf(row) ==
    all_results[CHOOSE j \in 1..Len(all_results) :
                    all_results[j].filename = Some(row.Dateiname)]

\* C8: with a job description and at least one result, the ranking is a
\* permutation of the overview rows in non-increasing order of the relevance
\* score (0 where the result has none), indexed 1..n; without a job
\* description there is no ranking.
C8_RankingSortedAndIndexed ==
    /\ ~Truthy(job_description) => ranking_df = None
    /\ (Truthy(job_description) /\ links # <<>>) => ranking_df # None
    /\ ranking_df # None =>
          LET r == ranking_df[1] IN
          /\ Truthy(job_description)
          /\ Len(r) = Len(overview_df)
          /\ Len(r) = Len(all_results)
          /\ Len(r) >= 1
          /\ {r[k].row : k \in 1..Len(r)} = {overview_df[k].row : k \in 1..Len(r)}
          /\ \A a, b \in 1..Len(r) :
                a < b => r[a].row.RelevanzScore >= r[b].row.RelevanzScore
          /\ \A k \in 1..Len(r) :
                /\ r[k].index = k
                /\ r[k].row.RelevanzScore =
                      (IF ResultOf(r[k].row).relevance_score = None
                          THEN 0
                          ELSE ResultOf(r[k].row).relevance_score[1])

\* A ranking of three rows, the first scored above the last, the last without
\* a score of its own.
C8_Witness ==
    /\ ranking_df # None
    /\ Len(ranking_df[1]) >= 3
    /\ ranking_df[1][1].row.RelevanzScore > ranking_df[1][3].row.RelevanzScore
    /\ ResultOf(ranking_df[1][3].row).relevance_score = None
    /\ overview_df[1].row.RelevanzScore < overview_df[2].row.RelevanzScore

\* C9: the workbook written holds the overview sheet, one skills sheet per
\* result with skills and one experience sheet per result with experience, and
\* no two of its sheets have the same name.
C9_SheetCount ==
    xlsx_file # None =>
        LET sheets == xlsx_file[1] IN
        /\ Len(sheets) =
              1 + Cardinality({k \in 1..Len(all_results) : all_results[k].skills # {}})
                + Cardinality({k \in 1..Len(all_results) :
                                   all_results[k].experience # <<>>})
        /\ Count(sheets, OverviewSheet) = 1
        /\ \A a, b \in 1..Len(sheets) : sheets[a] = sheets[b] => a = b
        /\ excel_data # None => excel_data = xlsx_file

\* A workbook of a batch with a result without skills and experience, two
\* results with skills and one with experience only.
C9_Witness ==
    /\ xlsx_file # None
    /\ excel_data = xlsx_file
    /\ Len(all_results) = 4
    /\ Len(xlsx_file[1]) = 6
    /\ \E k \in 1..4 : all_results[k].skills = {} /\ all_results[k].experience = <<>>
    /\ \E k \in 1..4 : all_results[k].skills = {} /\ all_results[k].experience # <<>>

\* C10: the top candidates are the first min(3, n) rows of the ranking of n
\* rows: at most 3, at most n, and the rows of ranks 1..min(3, n).
C10_TopCandidates ==
    top_candidates # None =>
        LET t == top_candidates[1]
            r == ranking_df[1]
        IN  /\ ranking_df # None
            /\ Len(t) = (IF Len(r) < 3 THEN Len(r) ELSE 3)
            /\ Len(t) <= 3
            /\ Len(t) <= Len(r)
            /\ \A k \in 1..Len(t) : t[k] = r[k] /\ t[k].index = k

\* A ranking of four rows of which three are the top candidates.
C10_Witness ==
    /\ top_candidates # None
    /\ Len(ranking_df[1]) = 4
    /\ Len(top_candidates[1]) = 3

\* A ranking of two rows, both of which are top candidates.
C10_WitnessTwo ==
    /\ top_candidates # None
    /\ Len(ranking_df[1]) = 2
    /\ Len(top_candidates[1]) = 2

\* C11: no fault of a batch run leaves the handler: every one is caught, shown
\* as an error banner and logged, and a failing cleanup is passed over.
C11_NoFaultPropagates ==
    /\ pc # "raised"
    /\ Count(st_errors, BatchError) = Count(error_log, BatchContext)

\* In every state: a call is made only with all uploads persisted, the calls
\* are one per upload in upload order, and the one duration measurement is
\* there once the loop has been left by its end.
C12_State ==
    /\ calls # <<>> => Len(temp_files) = Len(uploaded_files)
    /\ Len(calls) <= Len(uploaded_files)
    /\ \A j \in 1..Len(calls) : calls[j][1] = TmpName(j)
    /\ Len(metrics) <= 1
    /\ metrics # <<>> =>
          /\ metrics = <<"batch_analysis_duration">>
          /\ Len(calls) = Len(uploaded_files)
    /\ (overview_df # <<>> \/ links # <<>> \/ excel_buffer # None) => Len(metrics) = 1
    /\ (pc \in {"finally", "done", "raised"} /\ Count(error_log, BatchContext) = 0)
          => Len(metrics) = 1

\* A call finds every upload's temporary file on disk; the measurement is
\* taken after the last call and before any overview or export exists.
C12_Step ==
    /\ calls' # calls =>
          /\ Len(calls') = Len(calls) + 1
          /\ \A k \in 1..Len(uploaded_files) : TmpName(k) \in fs
          /\ metrics = <<>>
    /\ metrics' # metrics =>
          /\ Len(calls) = Len(uploaded_files)
          /\ calls' = calls
          /\ overview_df = <<>> /\ overview_df' = <<>>
          /\ links = <<>> /\ links' = <<>>
          /\ excel_buffer = None /\ excel_buffer' = None

\* C12: all uploads are persisted before the first Analyzer call, the Analyzer
\* is called at most once per upload in upload order, and a run that gets
\* through the loop records exactly one batch_analysis_duration measurement,
\* after the last upload and before any overview or export, however many
\* uploads failed.
C12_Sequence == [](C12_State) /\ [][C12_Step]_vars

\* A batch of at least two uploads, all of which failed, has finished with its
\* one measurement.
C12_Witness ==
    /\ pc = "done"
    /\ Len(uploaded_files) >= 2
    /\ Failing = 1..Len(uploaded_files)
    /\ Len(calls) = Len(uploaded_files)
    /\ metrics = <<"batch_analysis_duration">>
    /\ Count(error_log, BatchContext) = 0

\* The text area holds a text that is not empty.
TextGiven == job_description # None /\ job_description # Some("")

\* C14: the job description counts as present exactly when its text is not
\* empty, and the same way at every use of one run: either every Analyzer call
\* gets it and a ranking is built once there are results, or no call gets it
\* and no ranking is built.
C14_JobDescriptionConsistent ==
    /\ \A j \in 1..Len(calls) :
          calls[j][2] = (IF TextGiven THEN job_description ELSE None)
    /\ ranking_df # None => TextGiven
    /\ top_candidates # None => TextGiven
    /\ (links # <<>> /\ TextGiven) => ranking_df # None
    /\ (links # <<>> /\ ~TextGiven) => ranking_df = None

\* The checkbox is ticked and the text is empty: two calls were made, results
\* exist, the exports have been reached and there is no ranking.
C14_Witness ==
    /\ job_description = Some("")
    /\ Len(calls) >= 2
    /\ all_results # <<>>
    /\ links # <<>>
    /\ ranking_df = None

\* A text was given: two calls got it and the ranking exists.
C14_WitnessGiven ==
    /\ job_description = Some("job")
    /\ Len(calls) >= 2
    /\ calls[2][2] = Some("job")
    /\ ranking_df # None

\* C13: every path an invocation creates or deletes is its own, so between
\* closing its writer and deleting the workbook each of two interleaved
\* invocations finds its own workbook on disk, and the bytes it read back and
\* offers are the sheets of its own results.
C13_InvocationsIsolated ==
    /\ pc \in {"xlsx_read", "xlsx_link", "xlsx_unlink"} => xlsx_file = excel_buffer
    /\ excel_data # None => excel_data = excel_buffer
    /\ other.pc \in {"xlsx_read", "xlsx_unlink"} => xlsx_file = other.buffer
    /\ other.data # None => other.data = other.buffer
====
